---------------------------- MODULE Spec2Model ----------------------------
(***************************************************************************)
(* A model of metamusic (src/main.py): the cover-art pipeline of main and  *)
(* its pure helpers.                                                       *)
(*                                                                         *)
(* Text is a sequence of one-character strings, so that searching,         *)
(* splitting, replacing and formatting are computed character by           *)
(* character the way the Python code computes them.  Python's None is the  *)
(* empty tuple and a present value v is the one-element tuple <<v>>.       *)
(***************************************************************************)
EXTENDS Integers, Sequences, FiniteSets, TLC

VARIABLES
    pc,             \* the statement of main (or of the function under check) that runs next
    page_response,  \* outcome of requests.get in get_html_soup
    soup,           \* main's local soup
    album_info,     \* main's local album_info
    cover_path,     \* main's local cover_path
    image_url,      \* download_cover_art's local image_url, the upgrader's argument
    hq_image_url,   \* the upgrader's return value
    image_response, \* outcome of requests.get in download_jpeg_image
    cover_file,     \* the file stored at cover_path
    writes,         \* how many times the file at cover_path has been written
    log,            \* the records handed to the logging sink
    s,              \* to_snake_case's argument
    snake,          \* to_snake_case(s)
    snake_again,    \* to_snake_case(to_snake_case(s))
    number,         \* format_cover_size's argument
    cover_size      \* format_cover_size(number)

vars == <<pc, page_response, soup, album_info, cover_path, image_url,
          hq_image_url, image_response, cover_file, writes, log,
          s, snake, snake_again, number, cover_size>>

-----------------------------------------------------------------------------
(* Bounds of the model *)

MaxUrlLen == 7
MaxNameLen == 4
MaxNumber == 2500
MaxTracks == 3
MaxCandidates == 2

-----------------------------------------------------------------------------
(* Python values *)

None == <<>>
Some(v) == <<v>>
Val(opt) == opt[1]

\* All sequences over alphabet of length at most n.
SeqsUpTo(alphabet, n) == UNION {[1..k -> alphabet] : k \in 0..n}

Max(a, b) == IF a >= b THEN a ELSE b
Min(a, b) == IF a <= b THEN a ELSE b

LogRecord(level, msg, arg) == [level |-> level, msg |-> msg, arg |-> arg]

-----------------------------------------------------------------------------
(* Character classes: str.isdigit, str.isupper, str.islower, str.isascii,  *)
(* str.lower and the whitespace str.strip removes.  "U+00C9" stands for    *)
(* the non-ASCII upper-case letter E-acute and "U+00E9" for its            *)
(* lower-case form.                                                        *)

Digits == {"0", "1", "2", "3", "4", "5", "6", "7", "8", "9"}
AsciiUpper == {"A", "T"}
AsciiLower == {"a", "t", "x", "k", "w", "u"}
NonAscii == {"U+00C9", "U+00E9"}
Whitespace == {" "}

isdigit(c) == c \in Digits
isupper(c) == c \in AsciiUpper \/ c = "U+00C9"
islower(c) == c \in AsciiLower \/ c = "U+00E9"
isascii(c) == c \notin NonAscii
lower(c) ==
    CASE c = "A" -> "a"
      [] c = "T" -> "t"
      [] c = "U+00C9" -> "U+00E9"
      [] OTHER -> c

-----------------------------------------------------------------------------
(* Resolution Upgrader: get_high_resolution_album_cover_url *)

\* The replacement text "10000x10000".
OversizedToken == <<"1", "0", "0", "0", "0", "x", "1", "0", "0", "0", "0">>

\* The last index of the longest run of digits of t that starts at i (\d+ is greedy).
DigitRunEnd(t, i) ==
    CHOOSE e \in i..Len(t) :
        /\ \A m \in i..e : isdigit(t[m])
        /\ (e = Len(t) \/ ~isdigit(t[e + 1]))

\* Whether \d+x\d+ matches t at index i.  The first \d+ cannot give a digit
\* back, since the next pattern character is the letter x.
MatchesAt(t, i) ==
    /\ isdigit(t[i])
    /\ LET e == DigitRunEnd(t, i)
       IN  /\ e + 2 <= Len(t)
           /\ t[e + 1] = "x"
           /\ isdigit(t[e + 2])

\* re.search(r'\d+x\d+', t): None, or the span [first, last] of the leftmost match.
re_search(t) ==
    IF \E i \in 1..Len(t) : MatchesAt(t, i)
    THEN LET first == CHOOSE i \in 1..Len(t) :
                          MatchesAt(t, i) /\ \A j \in 1..(i - 1) : ~MatchesAt(t, j)
             last == DigitRunEnd(t, DigitRunEnd(t, first) + 2)
         IN  Some([first |-> first, last |-> last])
    ELSE None

\* m.group(0)
group0(t, m) == SubSeq(t, Val(m).first, Val(m).last)

OccursAt(pat, t, i) ==
    /\ i + Len(pat) - 1 <= Len(t)
    /\ SubSeq(t, i, i + Len(pat) - 1) = pat

RECURSIVE SubFrom(_, _, _, _)
SubFrom(pat, repl, t, i) ==
    IF i > Len(t) THEN <<>>
    ELSE IF OccursAt(pat, t, i)
         THEN repl \o SubFrom(pat, repl, t, i + Len(pat))
         ELSE <<t[i]>> \o SubFrom(pat, repl, t, i + 1)

\* re.sub(pat, repl, t) for a pattern of digits and the letter x, which matches
\* only its own text: every non-overlapping occurrence, scanning from the left,
\* is replaced (no count is given).
re_sub(pat, repl, t) == SubFrom(pat, repl, t, 1)

\* A variant that returns the URL itself when it holds no resolution token.
get_high_resolution_album_cover_url_keep(u) ==
    LET m == re_search(u)
    IN  IF m = None
        THEN [ret |-> Some(u), log |-> <<LogRecord("WARNING", "No match found in URL", u)>>]
        ELSE [ret |-> Some(re_sub(group0(u, m), OversizedToken, u)), log |-> <<>>]

\* The return value and the log records of get_high_resolution_album_cover_url(u).
get_high_resolution_album_cover_url(u) ==
    LET m == re_search(u)
    IN  IF m = None
        THEN [ret |-> None, log |-> <<LogRecord("WARNING", "No match found in URL", u)>>]
        ELSE [ret |-> Some(re_sub(group0(u, m), OversizedToken, u)), log |-> <<>>]

UrlAlphabet == {"1", "2", "x", "/"}
Urls == SeqsUpTo(UrlAlphabet, MaxUrlLen)

Untouched ==
    /\ page_response = None /\ soup = None /\ album_info = None
    /\ cover_path = None /\ image_response = None /\ cover_file = None
    /\ writes = 0
    /\ s = <<>> /\ snake = None /\ snake_again = None
    /\ number = 0 /\ cover_size = None

InitUpgrader ==
    /\ pc = "get_high_resolution_album_cover_url"
    /\ image_url \in {Some(u) : u \in Urls}
    /\ hq_image_url = None
    /\ log = <<>>
    /\ Untouched

CallUpgrader ==
    /\ pc = "get_high_resolution_album_cover_url"
    /\ LET r == get_high_resolution_album_cover_url(Val(image_url))
       IN  /\ hq_image_url' = r.ret
           /\ log' = log \o r.log
    /\ pc' = "returned"
    /\ UNCHANGED <<page_response, soup, album_info, cover_path, image_url,
                   image_response, cover_file, writes, s, snake, snake_again,
                   number, cover_size>>

NextUpgrader == CallUpgrader

SpecUpgrader == InitUpgrader /\ [][NextUpgrader]_vars

\* The URL with only the leftmost match of \d+x\d+ replaced by the token.
FirstReplaced(u) ==
    LET m == Val(re_search(u))
    IN  SubSeq(u, 1, m.first - 1) \o OversizedToken \o SubSeq(u, m.last + 1, Len(u))

\* C1: for a URL that holds a match of \d+x\d+, the upgrader returns the URL
\* with exactly the leftmost match replaced by 10000x10000 and every other
\* character, a later resolution token included, unchanged.
C1_ReplacesOnlyFirst ==
    (pc = "returned" /\ re_search(Val(image_url)) # None)
        => hq_image_url = Some(FirstReplaced(Val(image_url)))

\* C4: for a URL that holds no match of \d+x\d+, the upgrader returns None and
\* logs one warning, and returns normally.
C4_NoMatchGivesNone ==
    (pc = "returned" /\ re_search(Val(image_url)) = None)
        => /\ hq_image_url = None
           /\ Len(log) = 1
           /\ log[1].level = "WARNING"

C4_Witness ==
    /\ pc = "returned"
    /\ Val(image_url) = <<"/", "1", "x", "/", "2">>
    /\ hq_image_url = None
    /\ Len(log) = 1

-----------------------------------------------------------------------------
(* Name Sanitizer: to_snake_case *)

\* str.strip(): leading and trailing whitespace removed.
RECURSIVE lstrip(_)
lstrip(t) ==
    IF t # <<>> /\ Head(t) \in Whitespace THEN lstrip(Tail(t)) ELSE t

RECURSIVE rstrip(_)
rstrip(t) ==
    IF t # <<>> /\ t[Len(t)] \in Whitespace THEN rstrip(SubSeq(t, 1, Len(t) - 1)) ELSE t

strip(t) == rstrip(lstrip(t))

\* A variant that cuts the last character off, underscore or not.
rstrip_underscore_cut(sb) == SubSeq(sb, 1, Len(sb) - 1)

\* A variant that keeps trailing underscores.
rstrip_underscore_keep(sb) == sb

\* sb.rstrip("_"): sb up to its last character that is no underscore.
rstrip_underscore(sb) ==
    LET n == CHOOSE k \in 0..Len(sb) :
                 /\ (k = 0 \/ sb[k] # "_")
                 /\ \A j \in (k + 1)..Len(sb) : sb[j] = "_"
    IN  SubSeq(sb, 1, n)

\* One turn of the loop of to_snake_case: sb after character c.
snake_step(sb, c) ==
    IF isupper(c) /\ isascii(c) THEN Append(sb, lower(c))
    ELSE IF isascii(c) /\ (islower(c) \/ isdigit(c)) THEN Append(sb, c)
    ELSE IF Len(sb) > 0 /\ sb[Len(sb)] # "_" THEN Append(sb, "_")
    ELSE sb

RECURSIVE snake_loop(_, _)
snake_loop(sb, t) ==
    IF t = <<>> THEN sb ELSE snake_loop(snake_step(sb, Head(t)), Tail(t))

to_snake_case(t) == rstrip_underscore(snake_loop(<<>>, strip(t)))

NameAlphabet == {"A", "a", "7", " ", "_", "-", "U+00C9", "U+00E9"}
Names == SeqsUpTo(NameAlphabet, MaxNameLen)

InitSanitizer ==
    /\ pc = "to_snake_case"
    /\ s \in Names
    /\ snake = None /\ snake_again = None
    /\ page_response = None /\ soup = None /\ album_info = None
    /\ cover_path = None /\ image_url = None /\ hq_image_url = None
    /\ image_response = None /\ cover_file = None /\ writes = 0 /\ log = <<>>
    /\ number = 0 /\ cover_size = None

\* to_snake_case applied to s.
Sanitize ==
    /\ pc = "to_snake_case"
    /\ snake' = Some(to_snake_case(s))
    /\ pc' = "sanitized"
    /\ UNCHANGED <<page_response, soup, album_info, cover_path, image_url,
                   hq_image_url, image_response, cover_file, writes, log,
                   s, snake_again, number, cover_size>>

\* to_snake_case applied to its own result.
SanitizeAgain ==
    /\ pc = "sanitized"
    /\ snake_again' = Some(to_snake_case(Val(snake)))
    /\ pc' = "returned"
    /\ UNCHANGED <<page_response, soup, album_info, cover_path, image_url,
                   hq_image_url, image_response, cover_file, writes, log,
                   s, snake, number, cover_size>>

NextSanitizer == Sanitize \/ SanitizeAgain

SpecSanitizer == InitSanitizer /\ [][NextSanitizer]_vars

\* C5: the result of to_snake_case has no two consecutive underscores and
\* neither begins nor ends with an underscore.
C5_NoStrayUnderscores ==
    snake # None =>
        LET sb == Val(snake)
        IN  /\ \A i \in 1..(Len(sb) - 1) : ~(sb[i] = "_" /\ sb[i + 1] = "_")
            /\ (sb # <<>> => sb[1] # "_" /\ sb[Len(sb)] # "_")

\* An input whose separators sit at the start, doubled in the middle and at the end.
C5_Witness ==
    /\ s = <<"-", "A", "_", "-">>
    /\ snake = Some(<<"a">>)

\* C6: to_snake_case is idempotent: applied to its own result it returns that result.
C6_Idempotent ==
    snake_again # None => snake_again = snake

C6_Witness ==
    /\ s = <<"A", " ", "-", "a">>
    /\ snake = Some(<<"a", "_", "a">>)
    /\ snake_again = Some(<<"a", "_", "a">>)

-----------------------------------------------------------------------------
(* Size label: format_cover_size *)

DigitChar(d) == <<"0", "1", "2", "3", "4", "5", "6", "7", "8", "9">>[d + 1]

\* str(n) for n >= 0
RECURSIVE str(_)
str(n) == IF n < 10 THEN <<DigitChar(n)>> ELSE str(n \div 10) \o <<DigitChar(n % 10)>>

RECURSIVE Pow10(_)
Pow10(k) == IF k = 0 THEN 1 ELSE 10 * Pow10(k - 1)

\* The low `width` decimal digits of n, zero-padded.
RECURSIVE PadDigits(_, _)
PadDigits(n, width) ==
    IF width = 0 THEN <<>> ELSE PadDigits(n \div 10, width - 1) \o <<DigitChar(n % 10)>>

\* f"{num / den:.<prec>f}": the quotient rounded to prec decimals, halves to the
\* even neighbour.  (For the sizes format_cover_size is given the quotient of
\* each branch is exact, and the float num / den carries it without error.)
format_f(num, den, prec) ==
    LET scaled == num * Pow10(prec)
        q == scaled \div den
        r == scaled % den
        rounded == IF 2 * r > den \/ (2 * r = den /\ q % 2 = 1) THEN q + 1 ELSE q
        whole == str(rounded \div Pow10(prec))
    IN  IF prec = 0 THEN whole
        ELSE whole \o <<".">> \o PadDigits(rounded % Pow10(prec), prec)

\* A variant that tests for the hundreds before the thousands.
format_cover_size_hundreds_first(n) ==
    IF n % 100 = 0 THEN format_f(n, 1000, 1) \o <<"k">>
    ELSE IF n % 1000 = 0 THEN format_f(n, 1000, 0) \o <<"k">>
    ELSE str(n)

format_cover_size(n) ==
    IF n % 1000 = 0 THEN format_f(n, 1000, 0) \o <<"k">>
    ELSE IF n % 100 = 0 THEN format_f(n, 1000, 1) \o <<"k">>
    ELSE str(n)

InitFormat ==
    /\ pc = "format_cover_size"
    /\ number \in 0..MaxNumber
    /\ cover_size = None
    /\ page_response = None /\ soup = None /\ album_info = None
    /\ cover_path = None /\ image_url = None /\ hq_image_url = None
    /\ image_response = None /\ cover_file = None /\ writes = 0 /\ log = <<>>
    /\ s = <<>> /\ snake = None /\ snake_again = None

CallFormat ==
    /\ pc = "format_cover_size"
    /\ cover_size' = Some(format_cover_size(number))
    /\ pc' = "returned"
    /\ UNCHANGED <<page_response, soup, album_info, cover_path, image_url,
                   hq_image_url, image_response, cover_file, writes, log,
                   s, snake, snake_again, number>>

NextFormat == CallFormat

SpecFormat == InitFormat /\ [][NextFormat]_vars

-----------------------------------------------------------------------------
(* The network: what requests.get may give back *)

\* The one status the code takes for success.
HTTP_OK == 200
\* The statuses of the failed requests the model draws.
FailureStatuses == {404, 500}

\* requests.get raised (no connection, an invalid URL) instead of returning.
Raised == [raised |-> TRUE, status_code |-> 0, body |-> None]

Response(status, body) == [raised |-> FALSE, status_code |-> status, body |-> Some(body)]

\* A response that came back with a status other than 200.
NonSuccess(r) == r # None /\ ~Val(r).raised /\ Val(r).status_code # HTTP_OK

-----------------------------------------------------------------------------
(* Page Fetcher: get_html_soup *)

\* The return value and the log records of get_html_soup, given the response.
get_html_soup(response) ==
    IF response.status_code # HTTP_OK
    THEN [ret |-> None,
          log |-> <<LogRecord("ERROR", "Failed to extract the image URL from the provided URL", <<>>)>>]
    ELSE [ret |-> response.body, log |-> <<>>]

-----------------------------------------------------------------------------
(* Metadata Extractor: TrackInfo, AlbumInfo, parse_album_info *)

TrackInfo(track_number, track_name) ==
    [track_number |-> track_number, track_name |-> track_name]

number_of_tracks(album) == Len(album.tracks)

\* A variant that numbers the tracks from 0.
track_infos_from_zero(data) ==
    [i \in 1..Len(data.tracks) |-> TrackInfo(i - 1, data.tracks[i].name)]

\* The list built from enumerate(data["tracks"]).
track_infos(data) ==
    [i \in 1..Len(data.tracks) |-> TrackInfo(i, data.tracks[i].name)]

\* parse_album_info(soup): raises AttributeError for soup None (None has no
\* find) and for a page without the schema:music-album script (find gives None).
parse_album_info(page) ==
    IF page = None \/ Val(page).schema = None
    THEN [raised |-> TRUE, ret |-> None]
    ELSE LET data == Val(Val(page).schema)
         IN  [raised |-> FALSE,
              ret |-> Some([artist |-> data.byArtist.name,
                            album |-> data.name,
                            date_published |-> data.datePublished,
                            genre |-> data.genre[1],
                            tracks |-> track_infos(data)])]

-----------------------------------------------------------------------------
(* Cover Locator: the first half of download_cover_art *)

\* Whether character c occurs in t.
Contains(t, c) == \E i \in 1..Len(t) : t[i] = c

FirstIndex(t, c) == CHOOSE i \in 1..Len(t) : t[i] = c /\ \A j \in 1..(i - 1) : t[j] # c

\* str.split(sep) for a one-character separator: the pieces between the
\* separators, empty pieces included.
RECURSIVE split(_, _)
split(t, sep) ==
    IF ~Contains(t, sep) THEN <<t>>
    ELSE LET i == FirstIndex(t, sep)
         IN  <<SubSeq(t, 1, i - 1)>> \o split(SubSeq(t, i + 1, Len(t)), sep)

\* A variant that takes the first candidate.
pick_candidate_first(image_urls) == image_urls[1]

\* image_urls[-1]
pick_candidate(image_urls) == image_urls[Len(image_urls)]

\* The image URL download_cover_art reads from the srcset attribute.
locate_image_url(srcset) == split(pick_candidate(split(srcset, ",")), " ")[1]

-----------------------------------------------------------------------------
(* Image Downloader: download_jpeg_image *)

\* A variant that writes the body whatever the status.
download_jpeg_image_always(response, file) ==
    [file |-> response.body,
     written |-> 1,
     log |-> IF response.status_code # HTTP_OK
             THEN <<LogRecord("ERROR", "Failed to download image from URL", <<>>)>>
             ELSE <<>>]

\* The file at path after download_jpeg_image, whether it was written, and the
\* log records, given the response and the file before.
download_jpeg_image(response, file) ==
    IF response.status_code # HTTP_OK
    THEN [file |-> file,
          written |-> 0,
          log |-> <<LogRecord("ERROR", "Failed to download image from URL", <<>>)>>]
    ELSE [file |-> response.body, written |-> 1, log |-> <<>>]

-----------------------------------------------------------------------------
(* Squarer: square_cover_image *)

Jpeg(width, height) == [format |-> "JPEG", width |-> width, height |-> height]

\* Bytes that are no image (an error page, say).
NotAnImage == [format |-> "unknown", width |-> 0, height |-> 0]

\* A variant that takes the smaller dimension for the side.
side_size_min(width, height) == Min(width, height)

\* side_size = max(width, height)
side_size(width, height) == Max(width, height)

\* square_cover_image(path), given the file at path: Image.open raises for a
\* missing file and for bytes that are no image.
square_cover_image(file) ==
    IF file = None \/ Val(file).format # "JPEG"
    THEN [raised |-> TRUE, file |-> file, written |-> 0, log |-> <<>>]
    ELSE LET width == Val(file).width
             height == Val(file).height
             side == side_size(width, height)
             dims == <<LogRecord("INFO", "Cover image dimensions",
                                 str(width) \o <<"x">> \o str(height)),
                       LogRecord("INFO", "Cover size", format_cover_size(side))>>
         IN  IF width = height
             THEN [raised |-> FALSE, file |-> file, written |-> 0, log |-> dims]
             ELSE [raised |-> FALSE,
                   file |-> Some(Jpeg(side, side)),
                   written |-> 1,
                   log |-> dims \o <<LogRecord("INFO", "Image resized", str(side))>>]

-----------------------------------------------------------------------------
(* The inputs of a run of main: the page, the image and the file already  *)
(* stored at the cover path                                               *)

TrackNames == {"Intro", "Outro"}
Artists == {<<"T", "a", " ", "A">>, <<"U+00C9", "t">>}
Albums == {<<"A", "7">>}

\* The decoded JSON of the schema:music-album script.
AlbumData ==
    {[byArtist |-> [name |-> artist],
      name |-> album,
      datePublished |-> "2020-01-01",
      genre |-> <<"Rock", "Music">>,
      tracks |-> [i \in 1..Len(names) |-> [name |-> names[i]]]] :
        artist \in Artists, album \in Albums, names \in SeqsUpTo(TrackNames, MaxTracks)}

\* The candidates a srcset may list: a URL and its descriptor.
Candidates ==
    {[url |-> <<"u", "/", "1", "x", "1">>, descriptor |-> <<"1", "w">>],
     [url |-> <<"u", "/", "2", "x", "2">>, descriptor |-> <<"2", "w">>],
     [url |-> <<"u">>, descriptor |-> <<"3", "w">>]}

CandidateLists == SeqsUpTo(Candidates, MaxCandidates) \ {<<>>}

\* The srcset text of a list of candidates, "<url> <descriptor>" each, joined by sep.
RECURSIVE join(_, _)
join(cands, sep) ==
    LET text == cands[1].url \o <<" ">> \o cands[1].descriptor
    IN  IF Len(cands) = 1 THEN text ELSE text \o sep \o join(Tail(cands), sep)

\* Candidates separated by a comma, or by a comma and a space.
Srcsets == {join(cands, sep) : cands \in CandidateLists, sep \in {<<",">>, <<",", " ">>}}

\* The parsed page: the JSON of its schema:music-album script and the srcset of
\* the JPEG source in its artwork-component div, each None when the page has
\* no such element.
Pages ==
    [schema : {None} \cup {Some(d) : d \in AlbumData},
     artwork : {None} \cup {Some(a) : a \in Srcsets}]

ErrorPage == [schema |-> None, artwork |-> None]

PageResponses ==
    {Raised} \cup {Response(HTTP_OK, p) : p \in Pages}
             \cup {Response(c, ErrorPage) : c \in FailureStatuses}

ImageBodies == {Jpeg(800, 600), Jpeg(600, 800), Jpeg(500, 500), NotAnImage}

\* requests.get(None) raises (the URL has no scheme); any request may fail to connect.
ImageResponses(u) ==
    IF u = None THEN {Raised}
    ELSE {Raised} \cup {Response(HTTP_OK, b) : b \in ImageBodies}
                  \cup {Response(c, NotAnImage) : c \in FailureStatuses}

\* The file an earlier run may have left at the cover path.
StaleFiles == {None, Some(Jpeg(500, 500)), Some(Jpeg(400, 300))}

-----------------------------------------------------------------------------
(* main, statement by statement *)

Init ==
    /\ pc = "get_html_soup"
    /\ page_response = None /\ soup = None /\ album_info = None
    /\ cover_path = None /\ image_url = None /\ hq_image_url = None
    /\ image_response = None
    /\ cover_file \in StaleFiles
    /\ writes = 0
    /\ log = <<>>
    /\ s = <<>> /\ snake = None /\ snake_again = None
    /\ number = 0 /\ cover_size = None

\* soup = get_html_soup(url)
MainGetHtmlSoup ==
    /\ pc = "get_html_soup"
    /\ \E response \in PageResponses :
        /\ page_response' = Some(response)
        /\ IF response.raised
           THEN pc' = "crashed" /\ UNCHANGED <<soup, log>>
           ELSE LET r == get_html_soup(response)
                IN  /\ soup' = r.ret
                    /\ log' = log \o r.log
                    /\ pc' = "parse_album_info"
    /\ UNCHANGED <<album_info, cover_path, image_url, hq_image_url, image_response,
                   cover_file, writes, s, snake, snake_again, number, cover_size>>

\* album_info = parse_album_info(soup), and the log of the metadata
MainParseAlbumInfo ==
    /\ pc = "parse_album_info"
    /\ LET r == parse_album_info(soup)
       IN  IF r.raised
           THEN pc' = "crashed" /\ UNCHANGED <<album_info, log>>
           ELSE /\ album_info' = r.ret
                /\ log' = Append(log, LogRecord("INFO", "Extracted Album metadata is", <<>>))
                /\ pc' = "cover_path"
    /\ UNCHANGED <<page_response, soup, cover_path, image_url, hq_image_url,
                   image_response, cover_file, writes, s, snake, snake_again,
                   number, cover_size>>

\* cover_path = f"album_cover_{artist_snake_case}_{album_snake_case}.jpeg"
MainCoverPath ==
    /\ pc = "cover_path"
    /\ cover_path' = Some(<<"album_cover_">> \o to_snake_case(Val(album_info).artist)
                              \o <<"_">> \o to_snake_case(Val(album_info).album)
                              \o <<".jpeg">>)
    /\ pc' = "download_cover_art"
    /\ UNCHANGED <<page_response, soup, album_info, image_url, hq_image_url,
                   image_response, cover_file, writes, log, s, snake, snake_again,
                   number, cover_size>>

\* download_cover_art(soup, cover_path): the locator, the upgrader and the
\* download.  A page without the artwork element raises (find gives None).
MainDownloadCoverArt ==
    /\ pc = "download_cover_art"
    /\ IF Val(soup).artwork = None
       THEN /\ pc' = "crashed"
            /\ UNCHANGED <<image_url, hq_image_url, image_response, cover_file, writes, log>>
       ELSE LET url == locate_image_url(Val(Val(soup).artwork))
                hq == get_high_resolution_album_cover_url(url)
                info == LogRecord("INFO", "Downloading cover image from URL", <<>>)
            IN  /\ image_url' = Some(url)
                /\ hq_image_url' = hq.ret
                /\ \E response \in ImageResponses(hq.ret) :
                    /\ image_response' = Some(response)
                    /\ IF response.raised
                       THEN /\ pc' = "crashed"
                            /\ log' = Append(log \o hq.log, info)
                            /\ UNCHANGED <<cover_file, writes>>
                       ELSE LET d == download_jpeg_image(response, cover_file)
                            IN  /\ cover_file' = d.file
                                /\ writes' = writes + d.written
                                /\ log' = Append(log \o hq.log, info) \o d.log
                                /\ pc' = "square_cover_image"
    /\ UNCHANGED <<page_response, soup, album_info, cover_path, s, snake,
                   snake_again, number, cover_size>>

\* square_cover_image(cover_path)
MainSquareCoverImage ==
    /\ pc = "square_cover_image"
    /\ LET r == square_cover_image(cover_file)
       IN  /\ cover_file' = r.file
           /\ writes' = writes + r.written
           /\ log' = log \o r.log
           /\ pc' = IF r.raised THEN "crashed" ELSE "done"
    /\ UNCHANGED <<page_response, soup, album_info, cover_path, image_url,
                   hq_image_url, image_response, s, snake, snake_again, number,
                   cover_size>>

Next ==
    \/ MainGetHtmlSoup
    \/ MainParseAlbumInfo
    \/ MainCoverPath
    \/ MainDownloadCoverArt
    \/ MainSquareCoverImage

Spec == Init /\ [][Next]_vars

-----------------------------------------------------------------------------
(* Properties of a run of main *)

\* How many records of the given level the log holds.
CountLevel(records, level) ==
    Cardinality({i \in 1..Len(records) : records[i].level = level})

\* C2: a response other than 200 to the page fetch or to the image fetch
\* short-circuits only that step: the rest of main still runs and the run does
\* not end in an unhandled error.
C2_NonSuccessDoesNotAbort ==
    (NonSuccess(page_response) \/ NonSuccess(image_response)) => pc # "crashed"

\* C3: given a response other than 200, download_jpeg_image leaves the file at
\* the destination as it was (absent or unchanged, no write), logs one error
\* and returns; given 200 it writes the body to the destination in place of
\* whatever was there.
C3_DownloadWritesOnlyOnSuccess ==
    [][(pc = "download_cover_art" /\ image_response' # None /\ ~Val(image_response').raised)
         => IF Val(image_response').status_code # HTTP_OK
            THEN /\ cover_file' = cover_file
                 /\ writes' = writes
                 /\ CountLevel(log', "ERROR") = CountLevel(log, "ERROR") + 1
                 /\ pc' = "square_cover_image"
            ELSE /\ cover_file' = Val(image_response').body
                 /\ writes' = writes + 1
                 /\ CountLevel(log', "ERROR") = CountLevel(log, "ERROR")
                 /\ pc' = "square_cover_image"]_vars

\* A 404 for the image with a file of an earlier run in place: nothing written.
C3_Witness ==
    /\ pc = "square_cover_image"
    /\ NonSuccess(image_response)
    /\ Val(image_response).status_code = 404
    /\ cover_file = Some(Jpeg(400, 300))
    /\ writes = 0
    /\ log[Len(log)].level = "ERROR"

\* C7: square_cover_image leaves a file of equal width and height untouched
\* (no write) and overwrites any other image file in place with an image whose
\* width and height are both max(width, height).
C7_SquareInPlace ==
    [][(pc = "square_cover_image" /\ cover_file # None /\ Val(cover_file).format = "JPEG")
         => LET w == Val(cover_file).width
                h == Val(cover_file).height
            IN  IF w = h
                THEN cover_file' = cover_file /\ writes' = writes /\ pc' = "done"
                ELSE /\ cover_file' = Some(Jpeg(Max(w, h), Max(w, h)))
                     /\ writes' = writes + 1
                     /\ pc' = "done"]_vars

\* An 800x600 download squared to 800x800: written by the download and by the squarer.
C7_Witness ==
    /\ pc = "done"
    /\ image_response = Some(Response(HTTP_OK, Jpeg(800, 600)))
    /\ cover_file = Some(Jpeg(800, 800))
    /\ writes = 2

\* C8: for a structured-data block of n tracks, parse_album_info returns an
\* AlbumInfo of n tracks whose i-th track has number i and the name of the
\* i-th entry of the source list.
C8_TracksNumberedInOrder ==
    album_info # None =>
        LET source == Val(Val(soup).schema).tracks
            album == Val(album_info)
        IN  /\ number_of_tracks(album) = Len(source)
            /\ \A i \in 1..Len(source) :
                /\ album.tracks[i].track_number = i
                /\ album.tracks[i].track_name = source[i].name

C8_Witness ==
    /\ album_info # None
    /\ number_of_tracks(Val(album_info)) = 3
    /\ Val(album_info).tracks = <<TrackInfo(1, "Intro"), TrackInfo(2, "Outro"),
                                  TrackInfo(3, "Intro")>>

=============================================================================
